---- MODULE Spec2Model ----
(***************************************************************************)
(* MultimodalLiveClient (src/lib/multimodal-live-client.ts): the           *)
(* connection life cycle of the streaming client over one WebSocket, the   *)
(* calls that write frames and the dispatch of inbound frames; and the     *)
(* audio playback scheduler of useLiveAPI (src/hooks/useLiveAPI.ts).       *)
(*                                                                         *)
(* Every handler of the class runs to completion on the single JavaScript  *)
(* thread, so each handler is one action.  A handler is written as an      *)
(* operator from a record of the client's state to the record it leaves,   *)
(* which lets a handler call another one (onError calls cleanupAndReject,  *)
(* onOpen calls _sendDirect) as the code does.                             *)
(***************************************************************************)
EXTENDS Integers, Sequences, FiniteSets, TLC

\* Bounds of the model.
MaxAttempts == 2      \* connection attempts (promises created by connect())
MaxSendAttempts == 1  \* connection attempts in the runs that also send frames
MaxFrames == 1        \* frames written after the setup frames, over all transports
MaxInbound == 2       \* inbound frames delivered, over all transports
MaxBufferLen == 3     \* bytes of the buffers built from the sample bytes
MaxChunks == 2        \* audio chunks handed to the playback scheduler
MaxFlushes == 1       \* calls of cleanupPlayback

\* The close code disconnect() passes to ws.close() and to the synthesized event.
NormalClosure == 1000

\* Configurations a caller may pass to connect(); 0 stands for null.
Configs == {1, 2}

\* Close codes a transport reports when it was not closed by the client.
RemoteCloseCodes == {1000, 1006}

VARIABLES
  urlValid,           \* whether new WebSocket(this.url) succeeds for this client's url
  ws,                 \* this.ws: 0 (null) or the index of a transport in sockets
  config,             \* this.config: 0 (null) or a configuration
  connectionAttempt,  \* this.connectionAttempt: 0 (null) or the index of a promise
  closingInitiated,   \* this.closingInitiated
  sockets,            \* every WebSocket object created so far
  promises,           \* every promise connect() created: "pending", "resolved", "rejected"
  timers,             \* pending setTimeout callbacks of disconnect()
  out,                \* what the last handler did, in order: calls, logs, events, frames
  disconnected,       \* history: transports that were live when disconnect() was called
  quiesced,           \* history: disconnect() was called and connect() not since
  reads,              \* handleMessage calls suspended at await event.data.text()
  arrived,            \* history: the number of inbound frames delivered so far
  dispatched,         \* history: the frames that led to an event, in the order of the events
  session,            \* history: the last of 'open' and 'close' emitted, and whether
                      \* the two have alternated so far, starting with 'open'
  codec,              \* a buffer on its way through arrayBufferToBase64 and back
  audioSoundRef,      \* audioSoundRef.current: 0 (null) or the chunk whose sound it is
  playbackQueueRef,   \* playbackQueueRef.current: the chunks waiting to be played
  isPlayingAudioRef,  \* isPlayingAudioRef.current
  cleanupQueueRef,    \* cleanupQueueRef.current: the files a flush is to delete
  error,              \* the hook's error state: "null" or the kind of the error set last
  volumeOut,          \* the hook's volumeOut state, in tenths
  tasks,              \* where the handling of each chunk is suspended
  sounds,             \* the state of the Audio.Sound created for each chunk
  cleanups,           \* the calls of cleanupPlayback that are suspended at an await
  files,              \* the state of the transient file of each chunk
  history             \* history: arrivals, loads started, deletes issued, flushes

\* The variables of the client.
clientVars == <<urlValid, ws, config, connectionAttempt, closingInitiated, sockets,
                promises, timers, out, disconnected, quiesced, reads, arrived, dispatched,
                session>>

\* The variables of the playback scheduler.
playerVars == <<audioSoundRef, playbackQueueRef, isPlayingAudioRef, cleanupQueueRef,
                error, volumeOut, tasks, sounds, cleanups, files, history>>

\* The variables the client never touches.
outside == <<codec, playerVars>>

vars == <<clientVars, outside>>

----------------------------------------------------------------------------
\* The client's state as one record, and the entries a handler leaves in out.

St == [ws |-> ws, config |-> config, att |-> connectionAttempt,
       closing |-> closingInitiated, tr |-> sockets, pr |-> promises,
       timers |-> timers, reads |-> reads, out |-> <<>>]

\* k: the kind of entry; e: its name; t: the transport or promise it concerns
\* (0: none); x: a close code or a configuration (0: none).
Entry(k, e, t, x) == [k |-> k, e |-> e, t |-> t, x |-> x]

Note(s, entry) == [s EXCEPT !.out = Append(@, entry)]

\* this.log(type, message): emits a 'log' event.
Log(s, type) == Note(s, Entry("log", type, 0, 0))

\* this.emit(name, ...) for the events subscribers listen to.
Emit(s, name, t, x) == Note(s, Entry("emit", name, t, x))

\* resolve(true) / reject(error) of the promise of an attempt: a promise settles once.
Settle(s, p, how) ==
  IF s.pr[p] = "pending"
  THEN Note([s EXCEPT !.pr[p] = how], Entry("settle", how, p, 0))
  ELSE s

\* The frame { setup: config }.
SetupMessage(c) == [k |-> "setup", x |-> c, ok |-> TRUE]

\* A new WebSocket: CONNECTING, no listeners; att is the promise whose executor
\* created it (the closure onOpen, onError and onCloseEarly share); made: history,
\* the configuration of the connect() call that created it.
NewSocket(p) == [rs |-> "CONNECTING", ls |-> {}, att |-> p, frames |-> <<>>,
                 ready |-> FALSE, localClose |-> FALSE, made |-> 0]

----------------------------------------------------------------------------
\* _sendDirect(request) without the try/catch around JSON.stringify and ws.send.
_sendDirectUncaught(s, request) ==
  IF s.ws = 0 \/ s.tr[s.ws].rs # "OPEN"
  THEN Emit(Log(s, "error.send"), "error", 0, 0)
  ELSE IF ~request.ok
       THEN Note(s, Entry("throw", "error", 0, 0))
       ELSE Note([s EXCEPT !.tr[s.ws].frames = Append(@, request.k)],
                 Entry("frame", request.k, s.ws, request.x))

\* _sendDirect(request): writes the frame if the transport is open, else an error
\* event; a request that JSON.stringify or ws.send rejects (ok = FALSE) is caught.
_sendDirect(s, request) ==
  IF s.ws = 0 \/ s.tr[s.ws].rs # "OPEN"
  THEN Emit(Log(s, "error.send"), "error", 0, 0)
  ELSE IF ~request.ok
       THEN Emit(Log(s, "error.send"), "error", 0, 0)
       ELSE Note([s EXCEPT !.tr[s.ws].frames = Append(@, request.k)],
                 Entry("frame", request.k, s.ws, request.x))

\* cleanupAndReject(error) of the attempt that created transport t.
cleanupAndReject(s, t) ==
  LET s1 == [s EXCEPT !.tr[t].ls = @ \ {"onOpen", "onError", "onCloseEarly"},
                      !.ws = 0,
                      !.att = 0]
      s2 == IF ~s1.closing THEN Settle(s1, s1.tr[t].att, "rejected") ELSE s1
  IN [s2 EXCEPT !.closing = TRUE]

\* onOpen with the 'open' event emitted before the setup frame is sent.
onOpenEmitFirst(s, t) ==
  LET s1 == Log(s, "client.open")
      s2 == [s1 EXCEPT !.ws = t,
                       !.tr[t].ls = (@ \ {"onError", "onCloseEarly"})
                                    \cup {"handleMessage", "handleClose", "handleError"}]
      s3 == Emit(s2, "open", t, 0)
      s4 == Log(_sendDirect(s3, SetupMessage(s.config)), "client.send")
  IN Settle([s4 EXCEPT !.att = 0], s.tr[t].att, "resolved")

\* onOpen that never sends the setup frame.
onOpenNoSetup(s, t) ==
  LET s1 == Log(s, "client.open")
      s2 == [s1 EXCEPT !.ws = t,
                       !.tr[t].ls = (@ \ {"onError", "onCloseEarly"})
                                    \cup {"handleMessage", "handleClose", "handleError"}]
      s3 == Emit(s2, "open", t, 0)
  IN Settle([s3 EXCEPT !.att = 0], s.tr[t].att, "resolved")

\* onOpen of the attempt that created transport t.
onOpen(s, t) ==
  IF s.config = 0
  THEN cleanupAndReject(s, t)
  ELSE LET s1 == Log(s, "client.open")
           s2 == [s1 EXCEPT !.ws = t,
                            !.tr[t].ls = (@ \ {"onError", "onCloseEarly"})
                                         \cup {"handleMessage", "handleClose", "handleError"}]
           s3 == Log(_sendDirect(s2, SetupMessage(s.config)), "client.send")
           s4 == Emit(s3, "open", t, 0)
       IN Settle([s4 EXCEPT !.att = 0], s.tr[t].att, "resolved")

\* onError of the attempt that created transport t.
onError(s, t) == cleanupAndReject(Emit(s, "error", t, 0), t)

\* onCloseEarly of the attempt that created transport t.
onCloseEarly(s, t) == cleanupAndReject(Emit(s, "error", t, 0), t)

\* handleClose(event) for a close event of transport t with the given code: both
\* early returns are taken exactly when closingInitiated is set.
handleClose(s, t, code) ==
  IF s.closing
  THEN s
  ELSE LET s1 == Log(s, "server.close")
       IN Emit([s1 EXCEPT !.ws = 0, !.att = 0, !.closing = TRUE], "close", t, code)

\* handleError(event) for an error event of transport t.
handleError(s, t) ==
  IF s.closing
  THEN s
  ELSE Emit(Log(s, "server.error"), "error", t, 0)

----------------------------------------------------------------------------
\* Inbound frames.  The text of a frame is <<>> (the empty string), <<"{">> (text
\* that is not JSON) or <<"{", message, "}">> (the serialization of a message).

\* JSON.parse(text): the message, or a SyntaxError.
JSONparse(text) ==
  IF Len(text) = 3 /\ text[1] = "{" /\ text[3] = "}"
  THEN [ok |-> TRUE, value |-> text[2]]
  ELSE [ok |-> FALSE, value |-> 0]

\* An inbound message: its first top-level key, the top-level keys it has besides
\* (also) and, under serverContent, the interrupted and turnComplete markers and
\* the parts of the model turn.
Message(tag, interrupted, turnComplete, hasModelTurn, parts) ==
  [tag |-> tag, also |-> {}, interrupted |-> interrupted, turnComplete |-> turnComplete,
   hasModelTurn |-> hasModelTurn, parts |-> parts]

\* The message m with the top-level keys keys added after its first key.
WithKeys(m, keys) == [m EXCEPT !.also = keys]

\* Object.keys(m).
Keys(m) == {m.tag} \cup m.also

\* A part of a model turn: the mimeType and data of its inlineData ("undefined"
\* mimeType: a part without inlineData, such as a text part).
InPart(mimeType, data) == [mimeType |-> mimeType, data |-> data]

\* The classifiers of multimodal-live-types: each tests for its top-level key.
isServerContentMessage(m) == "serverContent" \in Keys(m)

isToolCallMessage(m) == "toolCall" \in Keys(m)

isToolCallCancellationMessage(m) == "toolCallCancellation" \in Keys(m)

isSetupCompleteMessage(m) == "setupComplete" \in Keys(m)

isInterrupted(serverContent) == serverContent.interrupted

isTurnComplete(serverContent) == serverContent.turnComplete

isModelTurn(serverContent) == serverContent.hasModelTurn

\* The codec (utils): text is a sequence of characters, a buffer a sequence of bytes.

\* The alphabet of the base-64 package, which position i - 1 of the table encodes.
TABLE ==
  <<"A", "B", "C", "D", "E", "F", "G", "H", "I", "J", "K", "L", "M",
    "N", "O", "P", "Q", "R", "S", "T", "U", "V", "W", "X", "Y", "Z",
    "a", "b", "c", "d", "e", "f", "g", "h", "i", "j", "k", "l", "m",
    "n", "o", "p", "q", "r", "s", "t", "u", "v", "w", "x", "y", "z",
    "0", "1", "2", "3", "4", "5", "6", "7", "8", "9", "+", "/">>

indexOf(c) == (CHOOSE i \in DOMAIN TABLE : TABLE[i] = c) - 1

\* The characters decode() removes before it decodes.
Whitespace == {" ", "\t", "\n", "\f", "\r"}

\* The characters encode() appends for the bytes at one position of its loop: four
\* for three bytes, and for a rest of one or two bytes the padding "=" as well.
encodeGroup(group) ==
  IF Len(group) = 1
  THEN LET buffer == group[1]
       IN <<TABLE[(buffer \div 4) + 1], TABLE[((buffer * 16) % 64) + 1], "=", "=">>
  ELSE IF Len(group) = 2
  THEN LET buffer == group[1] * 256 + group[2]
       IN <<TABLE[(buffer \div 1024) + 1], TABLE[((buffer \div 16) % 64) + 1],
            TABLE[((buffer * 4) % 64) + 1], "=">>
  ELSE LET buffer == group[1] * 65536 + group[2] * 256 + group[3]
       IN <<TABLE[((buffer \div 262144) % 64) + 1], TABLE[((buffer \div 4096) % 64) + 1],
            TABLE[((buffer \div 64) % 64) + 1], TABLE[(buffer % 64) + 1]>>

Min(a, b) == IF a < b THEN a ELSE b

\* encode(input) of the base-64 package; input: the char codes of a binary string,
\* none above 255.  Character k of the output comes from the bytes of group
\* (k - 1) \div 4.
encode(input) ==
  [k \in 1..(4 * ((Len(input) + 2) \div 3)) |->
     LET g == (k - 1) \div 4
     IN encodeGroup(SubSeq(input, 3 * g + 1, Min(3 * g + 3, Len(input))))[((k - 1) % 4) + 1]]

\* 2^(-2 * bitCounter & 6): the bits of bitStorage below the byte to take.
Below(bitCounter) ==
  CASE bitCounter % 4 = 2 -> 16
    [] bitCounter % 4 = 3 -> 4
    [] bitCounter % 4 = 0 -> 1
    [] OTHER -> 64

\* The loop of decode() over the characters bitCounter = 0..3 of one group: every
\* character adds six bits to bitStorage, which starts afresh with the group, and
\* every character but the first gives a byte.
decodeGroup(group) ==
  LET storage2 == indexOf(group[1]) * 64 + indexOf(group[2])
      storage3 == storage2 * 64 + indexOf(group[3])
      storage4 == storage3 * 64 + indexOf(group[4])
  IN (IF Len(group) >= 2 THEN <<(storage2 \div Below(2)) % 256>> ELSE <<>>)
     \o (IF Len(group) >= 3 THEN <<(storage3 \div Below(3)) % 256>> ELSE <<>>)
     \o (IF Len(group) >= 4 THEN <<(storage4 \div Below(4)) % 256>> ELSE <<>>)

\* The loop of decode(): byte j of the output comes from the characters of group
\* (j - 1) \div 3; a last group of two or three characters gives one or two bytes.
decodeChars(input) ==
  LET rest == Len(input) % 4
      length == 3 * (Len(input) \div 4) + (IF rest = 0 THEN 0 ELSE rest - 1)
  IN [j \in 1..length |->
        LET g == (j - 1) \div 3
        IN decodeGroup(SubSeq(input, 4 * g + 1, Min(4 * g + 4, Len(input))))[((j - 1) % 3) + 1]]

\* decode(input) of the base-64 package: the char codes of the binary string, or an
\* InvalidCharacterError (ok = FALSE).
decode(input) ==
  LET stripped == SelectSeq(input, LAMBDA c : c \notin Whitespace)
      n == Len(stripped)
      unpadded == IF n % 4 # 0 \/ n = 0 \/ stripped[n] # "="
                  THEN stripped
                  ELSE IF stripped[n - 1] = "="
                       THEN SubSeq(stripped, 1, n - 2)
                       ELSE SubSeq(stripped, 1, n - 1)
  IN IF \/ Len(unpadded) % 4 = 1
        \/ \E i \in DOMAIN unpadded : \A k \in DOMAIN TABLE : TABLE[k] # unpadded[i]
     THEN [ok |-> FALSE, output |-> <<>>]
     ELSE [ok |-> TRUE, output |-> decodeChars(unpadded)]

\* arrayBufferToBase64(buffer): String.fromCharCode of every byte, then encode().
arrayBufferToBase64(buffer) == encode([i \in 1..Len(buffer) |-> buffer[i]])

\* base64ToArrayBuffer(base64) whose loop stops one character early.
base64ToArrayBufferShort(base64) ==
  LET binaryString == decode(base64)
      len == Len(binaryString.output)
  IN IF binaryString.ok
     THEN [ok |-> TRUE,
           bytes |-> [i \in 1..len |-> IF i < len THEN binaryString.output[i] % 256 ELSE 0]]
     ELSE [ok |-> FALSE, bytes |-> <<>>]

\* base64ToArrayBuffer(base64): the bytes (a Uint8Array holds each char code modulo
\* 256), or the exception decode() throws for text that is not Base64 (ok = FALSE).
base64ToArrayBuffer(base64) ==
  LET binaryString == decode(base64)
      len == Len(binaryString.output)
  IN IF binaryString.ok
     THEN [ok |-> TRUE, bytes |-> [i \in 1..len |-> binaryString.output[i] % 256]]
     ELSE [ok |-> FALSE, bytes |-> <<>>]

\* The filter of processModelTurn that keeps every part with inlineData.
IsAudioPartAnyType(p) == p.mimeType # "undefined"

\* p.inlineData?.mimeType.startsWith('audio/').
IsAudioPart(p) == p.mimeType \in {"audio/pcm", "audio/wav"}

\* The body of audioParts.forEach with a decode failure that ends the loop.
RECURSIVE forEachAudioPartAbort(_, _, _)
forEachAudioPartAbort(s, t, audioParts) ==
  IF audioParts = <<>>
  THEN s
  ELSE LET part == Head(audioParts)
           data == base64ToArrayBuffer(part.data)
       IN IF part.data = <<>>
          THEN forEachAudioPartAbort(s, t, Tail(audioParts))
          ELSE IF data.ok
               THEN forEachAudioPartAbort(Log(Emit(s, "audio", t, data.bytes), "server.audio"),
                                          t, Tail(audioParts))
               ELSE Emit(Log(s, "error.audio"), "error", t, 0)

\* The body of audioParts.forEach for each part in turn.
RECURSIVE forEachAudioPart(_, _, _)
forEachAudioPart(s, t, audioParts) ==
  IF audioParts = <<>>
  THEN s
  ELSE LET part == Head(audioParts)
           data == base64ToArrayBuffer(part.data)
           s1 == IF part.data = <<>>
                 THEN s
                 ELSE IF data.ok
                      THEN Log(Emit(s, "audio", t, data.bytes), "server.audio")
                      ELSE Emit(Log(s, "error.audio"), "error", t, 0)
       IN forEachAudioPart(s1, t, Tail(audioParts))

\* processModelTurn(modelTurnContent) for a message of transport t.
processModelTurn(s, t, modelTurnContent) ==
  forEachAudioPart(s, t, SelectSeq(modelTurnContent.parts, IsAudioPart))

\* processIncomingMessage(response) that handles the model turn before the markers.
processIncomingMessageTurnFirst(s, t, response) ==
  LET s1 == Log(s, "server.receive")
  IN IF isServerContentMessage(response)
     THEN LET s2 == Emit(s1, "content", t, response)
              s3 == IF isModelTurn(response) THEN processModelTurn(s2, t, response) ELSE s2
              s4 == IF isInterrupted(response)
                    THEN Emit(Log(s3, "server.interrupted"), "interrupted", t, 0)
                    ELSE s3
          IN IF isTurnComplete(response)
             THEN Emit(Log(s4, "server.turnComplete"), "turncomplete", t, 0)
             ELSE s4
     ELSE IF isToolCallMessage(response)
     THEN Emit(Log(s1, "server.toolCall"), "toolcall", t, 0)
     ELSE IF isToolCallCancellationMessage(response)
     THEN Emit(Log(s1, "server.toolCallCancellation"), "toolcallcancellation", t, 0)
     ELSE IF isSetupCompleteMessage(response)
     THEN Emit(Log(s1, "server.setupComplete"), "setupcomplete", t, 0)
     ELSE Log(s1, "warn.receive")

\* processIncomingMessage(response) that reports a message of no known type as an
\* error.
processIncomingMessageUnhandledError(s, t, response) ==
  LET s1 == Log(s, "server.receive")
  IN IF isServerContentMessage(response)
     THEN LET s2 == Emit(s1, "content", t, response)
              s3 == IF isInterrupted(response)
                    THEN Emit(Log(s2, "server.interrupted"), "interrupted", t, 0)
                    ELSE s2
              s4 == IF isTurnComplete(response)
                    THEN Emit(Log(s3, "server.turnComplete"), "turncomplete", t, 0)
                    ELSE s3
          IN IF isModelTurn(response) THEN processModelTurn(s4, t, response) ELSE s4
     ELSE IF isToolCallMessage(response)
     THEN Emit(Log(s1, "server.toolCall"), "toolcall", t, 0)
     ELSE IF isToolCallCancellationMessage(response)
     THEN Emit(Log(s1, "server.toolCallCancellation"), "toolcallcancellation", t, 0)
     ELSE IF isSetupCompleteMessage(response)
     THEN Emit(Log(s1, "server.setupComplete"), "setupcomplete", t, 0)
     ELSE Emit(Log(s1, "error.receive"), "error", t, 0)

\* processIncomingMessage(response) whose branches are tested one after the other,
\* none as the else of the one before.
processIncomingMessageEveryBranch(s, t, response) ==
  LET s1 == Log(s, "server.receive")
      s5 == IF isServerContentMessage(response)
            THEN LET s2 == Emit(s1, "content", t, response)
                     s3 == IF isInterrupted(response)
                           THEN Emit(Log(s2, "server.interrupted"), "interrupted", t, 0)
                           ELSE s2
                     s4 == IF isTurnComplete(response)
                           THEN Emit(Log(s3, "server.turnComplete"), "turncomplete", t, 0)
                           ELSE s3
                 IN IF isModelTurn(response) THEN processModelTurn(s4, t, response) ELSE s4
            ELSE s1
      s6 == IF isToolCallMessage(response)
            THEN Emit(Log(s5, "server.toolCall"), "toolcall", t, 0)
            ELSE s5
      s7 == IF isToolCallCancellationMessage(response)
            THEN Emit(Log(s6, "server.toolCallCancellation"), "toolcallcancellation", t, 0)
            ELSE s6
  IN IF isSetupCompleteMessage(response)
     THEN Emit(Log(s7, "server.setupComplete"), "setupcomplete", t, 0)
     ELSE IF Keys(response) \cap {"serverContent", "toolCall", "toolCallCancellation"} = {}
     THEN Log(s7, "warn.receive")
     ELSE s7

\* processIncomingMessage(response) for a message of transport t.
processIncomingMessage(s, t, response) ==
  LET s1 == Log(s, "server.receive")
  IN IF isServerContentMessage(response)
     THEN LET s2 == Emit(s1, "content", t, response)
              s3 == IF isInterrupted(response)
                    THEN Emit(Log(s2, "server.interrupted"), "interrupted", t, 0)
                    ELSE s2
              s4 == IF isTurnComplete(response)
                    THEN Emit(Log(s3, "server.turnComplete"), "turncomplete", t, 0)
                    ELSE s3
          IN IF isModelTurn(response) THEN processModelTurn(s4, t, response) ELSE s4
     ELSE IF isToolCallMessage(response)
     THEN Emit(Log(s1, "server.toolCall"), "toolcall", t, 0)
     ELSE IF isToolCallCancellationMessage(response)
     THEN Emit(Log(s1, "server.toolCallCancellation"), "toolcallcancellation", t, 0)
     ELSE IF isSetupCompleteMessage(response)
     THEN Emit(Log(s1, "server.setupComplete"), "setupcomplete", t, 0)
     ELSE Log(s1, "warn.receive")

\* The end of handleMessage: if (dataToParse) { JSON.parse, processIncomingMessage }.
handleMessageText(s, t, dataToParse) ==
  IF dataToParse = <<>>
  THEN s
  ELSE LET response == JSONparse(dataToParse)
       IN IF response.ok
          THEN processIncomingMessage(s, t, response.value)
          ELSE Emit(Log(s, "error.receive"), "error", t, 0)

\* handleMessage(event) for frame n of transport t, up to its first await: a string
\* is parsed at once; a Blob is read asynchronously, which suspends the handler; an
\* ArrayBuffer is decoded by TextDecoder, which does not throw.
handleMessage(s, t, n, data) ==
  CASE data.enc = "string" -> handleMessageText(s, t, data.text)
    [] data.enc = "Blob" ->
         [Log(s, "server.receive.blob") EXCEPT
            !.reads = @ \cup {[n |-> n, t |-> t, text |-> data.text]}]
    [] data.enc = "ArrayBuffer" ->
         handleMessageText(Log(s, "server.receive.arraybuffer"), t, data.text)

\* handleMessage after await event.data.text() settled for the read r; readable:
\* whether the promise was fulfilled.
handleMessageResume(s, r, readable) ==
  LET s1 == [s EXCEPT !.reads = @ \ {r}]
  IN IF readable
     THEN handleMessageText(s1, r.t, r.text)
     ELSE Emit(Log(s1, "error.receive"), "error", r.t, 0)

----------------------------------------------------------------------------
\* connect(config) that starts a new attempt even when one is outstanding.
connectNoCoalesce(s, c, valid) ==
  LET p == Len(s.pr) + 1
      t == Len(s.tr) + 1
      s1 == Emit(Log([s EXCEPT !.config = c, !.closing = FALSE], "client.connect"),
                 "connecting", 0, 0)
      s2 == Note([s1 EXCEPT !.pr = Append(@, "pending"),
                            !.tr = Append(@, [NewSocket(p) EXCEPT
                                       !.ls = {"onOpen", "onError", "onCloseEarly"},
                                       !.made = c]),
                            !.att = p],
                 Entry("new", "WebSocket", t, c))
  IN Note(s2, Entry("return", "attempt", p, 0))

\* connect(config) without the check for a connection that is already open.
connectNoOpenCheck(s, c, valid) ==
  IF s.att # 0
  THEN Note(s, Entry("return", "attempt", s.att, 0))
  ELSE LET p == Len(s.pr) + 1
           t == Len(s.tr) + 1
           s1 == Emit(Log([s EXCEPT !.config = c, !.closing = FALSE], "client.connect"),
                      "connecting", 0, 0)
           s2 == [s1 EXCEPT !.pr = Append(@, "pending")]
           s3 == IF valid
                 THEN Note([s2 EXCEPT !.tr = Append(@, [NewSocket(p) EXCEPT
                                            !.ls = {"onOpen", "onError", "onCloseEarly"},
                                       !.made = c])],
                           Entry("new", "WebSocket", t, c))
                 ELSE Settle([Emit(Log(s2, "client.error"), "error", 0, 0)
                                EXCEPT !.att = 0], p, "rejected")
       IN Note([s3 EXCEPT !.att = p], Entry("return", "attempt", p, 0))

\* connect(config).  valid: whether new WebSocket(this.url) returns; when it throws,
\* the catch clears this.connectionAttempt and rejects, and then the assignment
\* this.connectionAttempt = new Promise(...) completes with the rejected promise.
connect(s, c, valid) ==
  IF s.att # 0
  THEN Note(s, Entry("return", "attempt", s.att, 0))
  ELSE IF s.ws # 0 /\ s.tr[s.ws].rs = "OPEN"
  THEN Note(s, Entry("return", "resolved", 0, 0))
  ELSE LET p == Len(s.pr) + 1
           t == Len(s.tr) + 1
           s1 == Emit(Log([s EXCEPT !.config = c, !.closing = FALSE], "client.connect"),
                      "connecting", 0, 0)
           s2 == [s1 EXCEPT !.pr = Append(@, "pending")]
           s3 == IF valid
                 THEN Note([s2 EXCEPT !.tr = Append(@, [NewSocket(p) EXCEPT
                                            !.ls = {"onOpen", "onError", "onCloseEarly"},
                                       !.made = c])],
                           Entry("new", "WebSocket", t, c))
                 ELSE Settle([Emit(Log(s2, "client.error"), "error", 0, 0)
                                EXCEPT !.att = 0], p, "rejected")
       IN Note([s3 EXCEPT !.att = p], Entry("return", "attempt", p, 0))

\* WebSocket.close(code, reason) on transport t: the closing handshake starts.
wsClose(s, t) ==
  IF s.tr[t].rs \in {"OPEN", "CONNECTING"}
  THEN [s EXCEPT !.tr[t].rs = "CLOSING", !.tr[t].localClose = TRUE]
  ELSE s

\* disconnect().
disconnect(s) ==
  IF s.closing
  THEN s
  ELSE LET t == s.ws
           s1 == Log(s, "client.disconnect")
           s2 == [s1 EXCEPT !.closing = TRUE,
                            !.tr[t].ls = @ \ {"handleMessage", "handleClose", "handleError"}]
           s3 == wsClose(s2, t)
           wasConnected == s3.tr[t].rs # "CLOSED"
           s4 == [s3 EXCEPT !.ws = 0]
           s5 == IF wasConnected THEN [s4 EXCEPT !.timers = Append(@, t)] ELSE s4
       IN IF s.ws # 0
          THEN [s5 EXCEPT !.att = 0]
          ELSE [s1 EXCEPT !.att = 0]

\* The callback disconnect() hands to setTimeout: the synthesized close event.
manualClose(s) ==
  Emit([s EXCEPT !.timers = Tail(@)], "close", 0, NormalClosure)

\* A Part: its text ("" also stands for a missing text) and its inlineData
\* ("undefined" or the name of an object), which stands for every object-valued
\* field send() tests (inlineData, functionCall, functionResponse, executableCode,
\* codeExecutionResult).
Part(text, inlineData) == [text |-> text, inlineData |-> inlineData]

\* The filter of send() that keeps every part.
IsValidPartAlways(part) == TRUE

\* The filter of send(): part.text || part.inlineData || ...; an empty string and
\* undefined are falsy, an object is truthy whatever it holds.
IsValidPart(part) == part.text # "" \/ part.inlineData # "undefined"

\* send(parts, turnComplete).
send(s, parts, turnComplete) ==
  IF s.ws = 0 \/ s.tr[s.ws].rs # "OPEN"
  THEN Log(s, "warn.send")
  ELSE LET validParts == SelectSeq(parts, IsValidPart)
       IN IF Len(validParts) = 0
          THEN Log(s, "warn.send")
          ELSE Log(_sendDirect(s, [k |-> "clientContent",
                                   x |-> [parts |-> validParts,
                                          turnComplete |-> turnComplete],
                                   ok |-> TRUE]),
                   "client.send.content")

\* sendRealtimeInput(chunks).
sendRealtimeInput(s, chunks) ==
  IF s.ws = 0 \/ s.tr[s.ws].rs # "OPEN"
  THEN Log(s, "warn.send")
  ELSE Log(_sendDirect(s, [k |-> "realtimeInput", x |-> chunks, ok |-> TRUE]),
           "client.send.realtimeInput")

\* sendToolResponse(toolResponse) without the check that the connection is open.
sendToolResponseUnguarded(s, toolResponse) ==
  Log(_sendDirect(s, [k |-> "toolResponse", x |-> toolResponse, ok |-> TRUE]),
      "client.send.toolResponse")

\* sendToolResponse(toolResponse).
sendToolResponse(s, toolResponse) ==
  IF s.ws = 0 \/ s.tr[s.ws].rs # "OPEN"
  THEN Log(s, "warn.send")
  ELSE Log(_sendDirect(s, [k |-> "toolResponse", x |-> toolResponse, ok |-> TRUE]),
           "client.send.toolResponse")

----------------------------------------------------------------------------
\* The transport dispatching an event to the listeners registered on it.

fireOpen(s, t) == IF "onOpen" \in s.tr[t].ls THEN onOpen(s, t) ELSE s

fireError(s, t) ==
  LET s1 == IF "onError" \in s.tr[t].ls THEN onError(s, t) ELSE s
  IN IF "handleError" \in (s.tr[t].ls \cap s1.tr[t].ls) THEN handleError(s1, t) ELSE s1

fireClose(s, t, code) ==
  LET s1 == IF "onCloseEarly" \in s.tr[t].ls THEN onCloseEarly(s, t) ELSE s
  IN IF "handleClose" \in (s.tr[t].ls \cap s1.tr[t].ls) THEN handleClose(s1, t, code) ELSE s1

----------------------------------------------------------------------------
\* The actions: one per call of the public interface and per transport or timer event.

\* The history of 'open' and 'close' after the entries of a handler.
RECURSIVE Alternation(_, _)
Alternation(h, entries) ==
  IF entries = <<>>
  THEN h
  ELSE LET entry == Head(entries)
           next == IF entry.k = "emit" /\ entry.e \in {"open", "close"}
                   THEN [last |-> entry.e,
                         alternates |-> h.alternates /\ (entry.e = "open") = (h.last # "open")]
                   ELSE h
       IN Alternation(next, Tail(entries))

Installs(s) ==
  /\ session' = Alternation(session, s.out)
  /\ ws' = s.ws
  /\ config' = s.config
  /\ connectionAttempt' = s.att
  /\ closingInitiated' = s.closing
  /\ sockets' = s.tr
  /\ promises' = s.pr
  /\ timers' = s.timers
  /\ reads' = s.reads
  /\ out' = s.out

Called(name) == Note(St, Entry("call", name, 0, 0))

Live == {t \in DOMAIN sockets : sockets[t].rs # "CLOSED"}

\* Lists of parts a caller passes to send().
PartLists ==
  {<<>>,
   <<Part("", "undefined")>>,
   <<Part("", "blob with no data"), Part("", "undefined"), Part("hi", "undefined")>>}

Connect ==
  \E c \in Configs :
    LET s == connect(Called("connect"), c, urlValid)
    IN /\ Len(s.pr) <= MaxAttempts
       /\ Installs(s)
       /\ quiesced' = FALSE
       /\ UNCHANGED <<outside, urlValid, disconnected, arrived, dispatched>>

Disconnect ==
  /\ Installs(disconnect(Called("disconnect")))
  /\ quiesced' = TRUE
  /\ disconnected' = disconnected \cup Live
  /\ UNCHANGED <<outside, urlValid, arrived, dispatched>>

\* The frames written so far that are not setup frames.
RECURSIVE DataFrames(_)
DataFrames(n) ==
  IF n = 0
  THEN 0
  ELSE DataFrames(n - 1)
       + Cardinality({i \in DOMAIN sockets[n].frames : sockets[n].frames[i] # "setup"})

HasRoom == DataFrames(Len(sockets)) < MaxFrames

Send ==
  \E parts \in PartLists, turnComplete \in BOOLEAN :
    /\ HasRoom
    /\ Installs(send(Note(Called("send"), Entry("arg", "parts", 0, parts)),
                     parts, turnComplete))
    /\ UNCHANGED <<outside, urlValid, disconnected, quiesced, arrived, dispatched>>

SendRealtimeInput ==
  /\ HasRoom
  /\ Installs(sendRealtimeInput(Called("sendRealtimeInput"), <<"audio">>))
  /\ UNCHANGED <<outside, urlValid, disconnected, quiesced, arrived, dispatched>>

SendToolResponse ==
  /\ HasRoom
  /\ Installs(sendToolResponse(Called("sendToolResponse"), <<"response">>))
  /\ UNCHANGED <<outside, urlValid, disconnected, quiesced, arrived, dispatched>>

\* A caller hands an object to _sendDirect(); ok: whether JSON.stringify and ws.send
\* accept it.
SendDirect ==
  \E ok \in BOOLEAN :
    /\ HasRoom
    /\ Installs(_sendDirect(Note(Called("_sendDirect"),
                                 Entry("arg", IF ok THEN "accepted" ELSE "rejected", 0, 0)),
                            [k |-> "raw", x |-> 0, ok |-> ok]))
    /\ UNCHANGED <<outside, urlValid, disconnected, quiesced, arrived, dispatched>>

\* The handshake of transport t completes: readyState OPEN, then the open event.
TransportOpen ==
  \E t \in DOMAIN sockets :
    /\ sockets[t].rs = "CONNECTING"
    /\ Installs(fireOpen(Note([St EXCEPT !.tr[t].rs = "OPEN", !.tr[t].ready = TRUE],
                              Entry("ready", "open", t, 0)), t))
    /\ UNCHANGED <<outside, urlValid, disconnected, quiesced, arrived, dispatched>>

\* The server starts the closing handshake of an open transport: readyState CLOSING.
TransportClosing ==
  \E t \in DOMAIN sockets :
    /\ sockets[t].rs = "OPEN"
    /\ Installs(Note([St EXCEPT !.tr[t].rs = "CLOSING"], Entry("env", "closing", t, 0)))
    /\ UNCHANGED <<outside, urlValid, disconnected, quiesced, arrived, dispatched>>

\* Transport t fails: readyState CLOSED, an error event and then a close event
\* (code 1006), in one task.
TransportFail ==
  \E t \in DOMAIN sockets :
    /\ sockets[t].rs # "CLOSED"
    /\ Installs(fireClose(fireError(Note([St EXCEPT !.tr[t].rs = "CLOSED"],
                                         Entry("env", "fail", t, 0)), t), t, 1006))
    /\ UNCHANGED <<outside, urlValid, disconnected, quiesced, arrived, dispatched>>

\* Transport t closes without an error: readyState CLOSED and a close event, with
\* the client's code when the client asked for the closure.
TransportClosed ==
  \E t \in DOMAIN sockets, code \in RemoteCloseCodes :
    /\ sockets[t].rs # "CLOSED"
    /\ sockets[t].localClose => code = NormalClosure
    /\ Installs(fireClose(Note([St EXCEPT !.tr[t].rs = "CLOSED"],
                               Entry("env", "closed", t, code)), t, code))
    /\ UNCHANGED <<outside, urlValid, disconnected, quiesced, arrived, dispatched>>

\* The model turn the server sends: audio, text, audio that is not Base64, audio
\* without data, an image, audio.
AudioTurn ==
  <<InPart("audio/pcm", <<"A", "A", "E", "C">>), InPart("undefined", <<>>),
    InPart("audio/pcm", <<"!">>), InPart("audio/pcm", <<>>),
    InPart("image/png", <<"B", "Q", "=", "=">>), InPart("audio/wav", <<"A", "w", "Q", "=">>)>>

\* A model turn of two text parts (parts without inlineData).
TextTurn == <<InPart("undefined", <<>>), InPart("undefined", <<>>)>>

\* Messages with more than one top-level key: toolCall before serverContent;
\* setupComplete before toolCallCancellation and toolCall; a key the dispatcher
\* does not know before setupComplete.
MultiKeyMessages ==
  {WithKeys(Message("toolCall", FALSE, TRUE, FALSE, <<>>), {"serverContent"}),
   WithKeys(Message("setupComplete", FALSE, FALSE, FALSE, <<>>),
            {"toolCallCancellation", "toolCall"}),
   WithKeys(Message("usageMetadata", FALSE, FALSE, FALSE, <<>>), {"setupComplete"})}

\* The messages a server sends.
Messages ==
  {Message("serverContent", i, c, m, IF m THEN AudioTurn ELSE <<>>) :
     i \in BOOLEAN, c \in BOOLEAN, m \in BOOLEAN}
  \cup {Message("serverContent", FALSE, FALSE, TRUE, TextTurn)}
  \cup {Message(tag, FALSE, FALSE, FALSE, <<>>) :
          tag \in {"toolCall", "toolCallCancellation", "setupComplete", "usageMetadata"}}
  \cup MultiKeyMessages

\* JSON.stringify(m) on the server.
JSONstringify(m) == <<"{", m, "}">>

\* The frames a transport delivers: event.data is a string, a Blob or an ArrayBuffer.
\* Every message comes as a string; the empty text, text that is not JSON and two of
\* the messages also come in the binary encodings.
Frames ==
  [enc : {"string"}, text : {<<>>, <<"{">>} \cup {JSONstringify(m) : m \in Messages}]
  \cup [enc : {"Blob", "ArrayBuffer"},
        text : {<<>>, <<"{">>,
                JSONstringify(Message("setupComplete", FALSE, FALSE, FALSE, <<>>)),
                JSONstringify(Message("serverContent", FALSE, TRUE, TRUE, AudioTurn))}]

\* The frames handled so far that led to an event, in the order of their events.
Dispatch(s, n) ==
  IF \E i \in DOMAIN s.out : s.out[i].k = "emit"
  THEN Append(dispatched, n)
  ELSE dispatched

\* Transport t delivers its next frame to the handleMessage listener.
TransportMessage ==
  \E t \in DOMAIN sockets, data \in Frames :
    /\ arrived < MaxInbound
    /\ sockets[t].rs = "OPEN"
    /\ "handleMessage" \in sockets[t].ls
    /\ LET n == arrived + 1
           s == handleMessage(Note(Note(St, Entry("env", "message", t, n)),
                                   Entry("arg", data.enc, 0, data.text)),
                              t, n, data)
       IN /\ Installs(s)
          /\ arrived' = n
          /\ dispatched' = Dispatch(s, n)
    /\ UNCHANGED <<outside, urlValid, disconnected, quiesced>>

\* The promise of event.data.text() settles and the suspended handleMessage goes on;
\* the reads of several Blobs end in any order.
BlobRead ==
  \E r \in reads, readable \in BOOLEAN :
    LET s == handleMessageResume(Note(Note(St, Entry("env", "blobread", r.t, r.n)),
                                      Entry("arg", IF readable THEN "text" ELSE "unreadable",
                                            0, r.text)),
                                 r, readable)
    IN /\ Installs(s)
       /\ dispatched' = Dispatch(s, r.n)
       /\ UNCHANGED <<outside, urlValid, disconnected, quiesced, arrived>>

\* The event loop runs the oldest callback disconnect() scheduled.
Timeout ==
  /\ timers # <<>>
  /\ Installs(manualClose(Note(St, Entry("env", "timeout", Head(timers), 0))))
  /\ UNCHANGED <<outside, urlValid, disconnected, quiesced, arrived, dispatched>>

ClientInit ==
  /\ urlValid \in BOOLEAN
  /\ ws = 0
  /\ config = 0
  /\ connectionAttempt = 0
  /\ closingInitiated = FALSE
  /\ sockets = <<>>
  /\ promises = <<>>
  /\ timers = <<>>
  /\ out = <<>>
  /\ disconnected = {}
  /\ quiesced = FALSE
  /\ reads = {}
  /\ arrived = 0
  /\ dispatched = <<>>
  /\ session = [last |-> "none", alternates |-> TRUE]

\* No buffer is being converted.
NoCodec == [stage |-> "none", buffer |-> <<>>, base64 |-> <<>>,
            result |-> [ok |-> TRUE, bytes |-> <<>>]]

\* The chunks of a run, named by their order of arrival; the uri of the file of
\* a chunk and the Sound created for it go by the same name.
Chunks == 1..MaxChunks

\* The refs and the state of the hook after its first render (lines 47-54).
PlayerInit ==
  /\ audioSoundRef = 0
  /\ playbackQueueRef = <<>>
  /\ isPlayingAudioRef = FALSE
  /\ cleanupQueueRef = <<>>
  /\ error = "null"
  /\ volumeOut = 0
  /\ tasks = [i \in Chunks |-> [pc |-> "none", on |-> 0]]
  /\ sounds = [i \in Chunks |-> "none"]
  /\ cleanups = <<>>
  /\ files = [i \in Chunks |-> "none"]
  /\ history = [received |-> 0, started |-> <<>>, deletes |-> [i \in Chunks |-> 0],
                warned |-> {}, triggered |-> 0, mark |-> 0, completed |-> 0]

Init == ClientInit /\ codec = NoCodec /\ PlayerInit

\* The life cycle of the connection: connect, disconnect, the transports, the timers.
Next ==
  \/ Connect
  \/ Disconnect
  \/ TransportOpen
  \/ TransportClosing
  \/ TransportFail
  \/ TransportClosed
  \/ Timeout

Spec == Init /\ [][Next]_vars

\* The life cycle together with the calls that write frames, over fewer attempts.
SendNext ==
  \/ (Connect /\ Len(promises') <= MaxSendAttempts)
  \/ Disconnect
  \/ Send
  \/ SendRealtimeInput
  \/ SendToolResponse
  \/ SendDirect
  \/ TransportOpen
  \/ TransportClosing
  \/ TransportFail
  \/ TransportClosed
  \/ Timeout

SendSpec == Init /\ [][SendNext]_vars

\* One session of the client together with the frames the server sends in it.
RecvNext ==
  \/ (Connect /\ promises = <<>>)
  \/ Disconnect
  \/ TransportOpen
  \/ TransportClosing
  \/ TransportFail
  \/ TransportClosed
  \/ Timeout
  \/ TransportMessage
  \/ BlobRead

RecvSpec == Init /\ [][RecvNext]_vars

----------------------------------------------------------------------------
\* The codec on its own: a buffer is encoded and the text decoded again.

\* The bytes the longer buffers are built from.
ByteSamples == {0, 1, 127, 128, 255}

\* The buffer that holds every byte value once.
AllBytes == [i \in 1..256 |-> i - 1]

\* The buffers converted: every sequence of sample bytes up to MaxBufferLen (the
\* empty buffer included), every single byte, and AllBytes.
Buffers ==
  UNION {[1..n -> ByteSamples] : n \in 0..MaxBufferLen}
  \cup {<<b>> : b \in 0..255}
  \cup {AllBytes}

CodecInit ==
  /\ ClientInit
  /\ PlayerInit
  /\ \E x \in Buffers : codec = [NoCodec EXCEPT !.stage = "buffer", !.buffer = x]

\* arrayBufferToBase64(x).
ToBase64 ==
  /\ codec.stage = "buffer"
  /\ codec' = [codec EXCEPT !.stage = "base64",
                            !.base64 = arrayBufferToBase64(codec.buffer)]
  /\ UNCHANGED <<clientVars, playerVars>>

\* base64ToArrayBuffer of the text arrayBufferToBase64 returned.
ToArrayBuffer ==
  /\ codec.stage = "base64"
  /\ codec' = [codec EXCEPT !.stage = "bytes",
                            !.result = base64ToArrayBuffer(codec.base64)]
  /\ UNCHANGED <<clientVars, playerVars>>

CodecNext ==
  \/ ToBase64
  \/ ToArrayBuffer

CodecSpec == CodecInit /\ [][CodecNext]_vars

----------------------------------------------------------------------------
\* The audio playback scheduler of useLiveAPI.  Every callback and every stretch
\* of an async function between two awaits runs to completion, so each is one
\* action; as for the client, a stretch is an operator from a record of the
\* scheduler's state to the record it leaves.  The file system and the audio
\* library settle each call in any order, with success or with an error.

Pl == [ref |-> audioSoundRef, queue |-> playbackQueueRef, playing |-> isPlayingAudioRef,
       cleanup |-> cleanupQueueRef, error |-> error, volume |-> volumeOut,
       tasks |-> tasks, sounds |-> sounds, cleanups |-> cleanups, files |-> files,
       history |-> history]

\* A Sound that is loaded in the output device.
Loaded(state) == state \in {"playing", "stopped", "ended"}

RemoveAt(seq, k) == [j \in 1..(Len(seq) - 1) |-> IF j < k THEN seq[j] ELSE seq[j + 1]]

\* FileSystem.deleteAsync(uri, {idempotent: true}) is called.
deleteIssued(p, uri) == [p EXCEPT !.history.deletes[uri] = @ + 1]

\* FileSystem.deleteAsync(uri) settles; warns: the rejection handler calls
\* console.warn.
deleteSettled(p, uri, ok, warns) ==
  IF ok
  THEN [p EXCEPT !.files[uri] = "deleted"]
  ELSE [p EXCEPT !.history.warned = IF warns THEN @ \cup {uri} ELSE @]

\* FileSystem.deleteAsync(uri, ...).catch(...) that nothing waits for.
deleteAsync(p, uri, ok, warns) == deleteSettled(deleteIssued(p, uri), uri, ok, warns)

\* playNextInQueue() up to its first await.
playNextInQueue(p) ==
  IF p.playing \/ p.queue = <<>>
  THEN IF ~p.playing /\ p.queue = <<>> THEN [p EXCEPT !.volume = 0] ELSE p
  ELSE LET nextItem == Head(p.queue)
       IN [p EXCEPT !.queue = Tail(@), !.playing = TRUE, !.error = "null",
                    !.tasks[nextItem] = [pc |-> "mode", on |-> 0]]

\* The status callback for a Sound that is no longer loaded and reports no error.
statusUnloaded(p, sound) ==
  [p EXCEPT !.ref = IF @ = sound THEN 0 ELSE @, !.playing = FALSE, !.volume = 0]

\* sound.unloadAsync() settles: a loaded Sound leaves the device and reports it
\* to its status callback.
unloadSound(p, sound, ok) ==
  IF ok /\ Loaded(p.sounds[sound])
  THEN statusUnloaded([p EXCEPT !.sounds[sound] = "unloaded"], sound)
  ELSE p

\* sound.stopAsync() is fulfilled: a playing Sound stops and reports it to its
\* status callback, which sets the volume.
stopSound(p, sound) ==
  IF p.sounds[sound] = "playing"
  THEN [p EXCEPT !.sounds[sound] = "stopped", !.volume = 0]
  ELSE p

\* The catch block of playNextInQueue that puts nextItem back on the queue.
playCatchRetry(p, nextItem, delOk) ==
  LET p1 == [p EXCEPT !.error = "load", !.playing = FALSE, !.volume = 0,
                      !.tasks[nextItem].pc = "done",
                      !.queue = Append(@, nextItem)]
  IN playNextInQueue(deleteAsync(p1, nextItem, delOk, TRUE))

\* The catch block of playNextInQueue for nextItem.
playCatch(p, nextItem, delOk) ==
  LET p1 == [p EXCEPT !.error = "load", !.playing = FALSE, !.volume = 0,
                      !.tasks[nextItem].pc = "done"]
  IN playNextInQueue(deleteAsync(p1, nextItem, delOk, TRUE))

\* Audio.Sound.createAsync({uri: nextItem.uri}, ...) is called.
createAsync(p, nextItem) ==
  [p EXCEPT !.tasks[nextItem] = [pc |-> "create", on |-> 0],
            !.sounds[nextItem] = "loading",
            !.history.started = Append(@, nextItem)]

\* playNextInQueue after await Audio.setAudioModeAsync(...).
playAfterMode(p, nextItem, ok, delOk) ==
  IF ~ok
  THEN playCatch(p, nextItem, delOk)
  ELSE IF p.ref # 0
  THEN [p EXCEPT !.tasks[nextItem] = [pc |-> "unloadPrev", on |-> p.ref]]
  ELSE createAsync(p, nextItem)

\* playNextInQueue after await audioSoundRef.current.unloadAsync().catch(...).
playAfterUnload(p, nextItem, ok) ==
  createAsync([unloadSound(p, p.tasks[nextItem].on, ok) EXCEPT !.ref = 0], nextItem)

\* playNextInQueue after await Audio.Sound.createAsync(...): the Sound plays and
\* has reported it to the status callback.
playAfterCreate(p, nextItem, ok, delOk) ==
  IF ok
  THEN [p EXCEPT !.sounds[nextItem] = "playing", !.volume = 8, !.ref = nextItem,
                 !.tasks[nextItem].pc = "active"]
  ELSE playCatch([p EXCEPT !.sounds[nextItem] = "failed"], nextItem, delOk)

\* The status callback for a playing Sound.
statusPlaying(p, sound) == [p EXCEPT !.volume = 8]

\* The status callback with didJustFinish: sound.unloadAsync() is called.
statusFinish(p, sound) ==
  [p EXCEPT !.sounds[sound] = "ended", !.volume = 0, !.tasks[sound].pc = "finishing"]

\* The status callback for a Sound that reports an error.
statusError(p, sound, delOk) ==
  LET p1 == deleteAsync([p EXCEPT !.sounds[sound] = "unloaded", !.error = "playback"],
                        sound, delOk, TRUE)
  IN playNextInQueue([p1 EXCEPT !.ref = IF @ = sound THEN 0 ELSE @,
                                !.playing = FALSE,
                                !.tasks[sound].pc = "done"])

\* The handlers of sound.unloadAsync() after didJustFinish whose finally does not
\* call playNextInQueue().
finishUnloadNoAdvance(p, sound, ok, delOk) ==
  LET p1 == IF ok
            THEN [unloadSound(p, sound, TRUE) EXCEPT
                    !.cleanup = SelectSeq(@, LAMBDA uri : uri # sound)]
            ELSE p
      p2 == deleteAsync(p1, sound, delOk, TRUE)
  IN [p2 EXCEPT !.ref = IF @ = sound THEN 0 ELSE @,
                !.playing = FALSE,
                !.tasks[sound].pc = "done"]

\* The handlers of sound.unloadAsync() after didJustFinish: then or catch, and
\* finally.
finishUnload(p, sound, ok, delOk) ==
  LET p1 == IF ok
            THEN [unloadSound(p, sound, TRUE) EXCEPT
                    !.cleanup = SelectSeq(@, LAMBDA uri : uri # sound)]
            ELSE p
      p2 == deleteAsync(p1, sound, delOk, TRUE)
  IN playNextInQueue([p2 EXCEPT !.ref = IF @ = sound THEN 0 ELSE @,
                                !.playing = FALSE,
                                !.tasks[sound].pc = "done"])

\* handleAudioChunk(audioData) up to await FileSystem.writeAsStringAsync(...).
handleAudioChunk(p, empty) ==
  IF empty
  THEN p
  ELSE LET chunk == p.history.received + 1
       IN [p EXCEPT !.history.received = chunk,
                    !.tasks[chunk].pc = "write",
                    !.files[chunk] = "writing"]

\* handleAudioChunk whose catch leaves the file to the next flush instead of
\* deleting it.
handleAudioChunkWrittenKeepsFile(p, chunk, ok, delOk) ==
  IF ok
  THEN LET p1 == [p EXCEPT !.files[chunk] = "written",
                           !.queue = Append(@, chunk),
                           !.cleanup = Append(@, chunk),
                           !.tasks[chunk].pc = "queued"]
       IN IF ~p1.playing THEN playNextInQueue(p1) ELSE p1
  ELSE [p EXCEPT !.error = "write", !.tasks[chunk].pc = "failed",
                 !.cleanup = Append(@, chunk)]

\* handleAudioChunk after await FileSystem.writeAsStringAsync(...).
handleAudioChunkWritten(p, chunk, ok, delOk) ==
  IF ok
  THEN LET p1 == [p EXCEPT !.files[chunk] = "written",
                           !.queue = Append(@, chunk),
                           !.cleanup = Append(@, chunk),
                           !.tasks[chunk].pc = "queued"]
       IN IF ~p1.playing THEN playNextInQueue(p1) ELSE p1
  ELSE deleteAsync([p EXCEPT !.error = "write", !.tasks[chunk].pc = "failed"],
                   chunk, delOk, FALSE)

\* cleanupPlayback from setVolumeOut(0) to the first deleteAsync; k: the place of
\* this call in cleanups, 0 when it has not been suspended yet.
cleanupFiles(p, k) ==
  LET filesToDelete == p.cleanup
      rest == IF k = 0 THEN p.cleanups ELSE RemoveAt(p.cleanups, k)
      p1 == [p EXCEPT !.volume = 0, !.cleanup = <<>>]
  IN IF filesToDelete = <<>>
     THEN [p1 EXCEPT !.cleanups = rest, !.history.completed = @ + 1]
     ELSE deleteIssued(
            [p1 EXCEPT !.cleanups = Append(rest, [pc |-> "delete", on |-> 0,
                                                  rest |-> filesToDelete])],
            Head(filesToDelete))

\* cleanupPlayback() up to its first await.
cleanupPlayback(p) ==
  LET p1 == [p EXCEPT !.playing = FALSE, !.queue = <<>>,
                      !.history.triggered = @ + 1,
                      !.history.mark = p.history.received]
  IN IF p1.ref # 0
     THEN [p1 EXCEPT !.cleanups = Append(@, [pc |-> "stop", on |-> p1.ref, rest |-> <<>>])]
     ELSE cleanupFiles(p1, 0)

\* cleanupPlayback after await audioSoundRef.current.stopAsync(): the ref is read
\* again for unloadAsync(), and reading a null ref throws into the catch.
cleanupAfterStop(p, k, ok) ==
  IF ok
  THEN LET p1 == stopSound(p, p.cleanups[k].on)
       IN IF p1.ref = 0
          THEN cleanupFiles(p1, k)
          ELSE [p1 EXCEPT !.cleanups[k] = [pc |-> "unload", on |-> p1.ref, rest |-> <<>>]]
  ELSE cleanupFiles([p EXCEPT !.ref = 0], k)

\* cleanupPlayback after await audioSoundRef.current.unloadAsync().
cleanupAfterUnload(p, k, ok) ==
  cleanupFiles([unloadSound(p, p.cleanups[k].on, ok) EXCEPT !.ref = 0], k)

\* cleanupPlayback whose loop ends at the first deleteAsync that is rejected.
cleanupAfterDeleteAbort(p, k, ok) ==
  LET uri == Head(p.cleanups[k].rest)
      rest == Tail(p.cleanups[k].rest)
      p1 == deleteSettled(p, uri, ok, TRUE)
  IN IF rest = <<>> \/ ~ok
     THEN [p1 EXCEPT !.cleanups = RemoveAt(@, k), !.history.completed = @ + 1]
     ELSE deleteIssued([p1 EXCEPT !.cleanups[k].rest = rest], Head(rest))

\* cleanupPlayback after await FileSystem.deleteAsync(uri, ...) in its loop.
cleanupAfterDelete(p, k, ok) ==
  LET uri == Head(p.cleanups[k].rest)
      rest == Tail(p.cleanups[k].rest)
      p1 == deleteSettled(p, uri, ok, TRUE)
  IN IF rest = <<>>
     THEN [p1 EXCEPT !.cleanups = RemoveAt(@, k), !.history.completed = @ + 1]
     ELSE deleteIssued([p1 EXCEPT !.cleanups[k].rest = rest], Head(rest))

\* What a stretch of the scheduler leaves.
Plays(p) ==
  /\ audioSoundRef' = p.ref
  /\ playbackQueueRef' = p.queue
  /\ isPlayingAudioRef' = p.playing
  /\ cleanupQueueRef' = p.cleanup
  /\ error' = p.error
  /\ volumeOut' = p.volume
  /\ tasks' = p.tasks
  /\ sounds' = p.sounds
  /\ cleanups' = p.cleanups
  /\ files' = p.files
  /\ history' = p.history
  /\ UNCHANGED <<clientVars, codec>>

Suspended(pc) == {i \in Chunks : tasks[i].pc = pc}

\* The client emits 'audio': handleAudio calls handleAudioChunk(data).
HandleAudioChunk ==
  /\ history.received < MaxChunks
  /\ \E empty \in BOOLEAN : Plays(handleAudioChunk(Pl, empty))

\* FileSystem.writeAsStringAsync settles.
WriteSettles ==
  \E chunk \in Suspended("write"), ok \in BOOLEAN, delOk \in BOOLEAN :
    Plays(handleAudioChunkWritten(Pl, chunk, ok, delOk))

\* Audio.setAudioModeAsync settles.
ModeSettles ==
  \E nextItem \in Suspended("mode"), ok \in BOOLEAN, delOk \in BOOLEAN :
    Plays(playAfterMode(Pl, nextItem, ok, delOk))

\* The unloadAsync() of the Sound playNextInQueue found in the ref settles.
UnloadPrevSettles ==
  \E nextItem \in Suspended("unloadPrev"), ok \in BOOLEAN :
    Plays(playAfterUnload(Pl, nextItem, ok))

\* Audio.Sound.createAsync settles; a file that is gone cannot be loaded.
CreateSettles ==
  \E nextItem \in Suspended("create"), ok \in BOOLEAN, delOk \in BOOLEAN :
    /\ ok => files[nextItem] = "written"
    /\ Plays(playAfterCreate(Pl, nextItem, ok, delOk))

\* A playing Sound reports its progress.
StatusPlaying ==
  \E sound \in Suspended("active") :
    /\ sounds[sound] = "playing"
    /\ Plays(statusPlaying(Pl, sound))

\* A playing Sound reaches its end.
StatusFinish ==
  \E sound \in Suspended("active") :
    /\ sounds[sound] = "playing"
    /\ Plays(statusFinish(Pl, sound))

\* A playing Sound fails.
StatusError ==
  \E sound \in Suspended("active"), delOk \in BOOLEAN :
    /\ sounds[sound] = "playing"
    /\ Plays(statusError(Pl, sound, delOk))

\* The unloadAsync() called after didJustFinish settles.
FinishUnloadSettles ==
  \E sound \in Suspended("finishing"), ok \in BOOLEAN, delOk \in BOOLEAN :
    Plays(finishUnload(Pl, sound, ok, delOk))

\* The client emits 'close' or 'interrupted', or the effect is torn down.
CleanupPlayback ==
  /\ history.triggered < MaxFlushes
  /\ Plays(cleanupPlayback(Pl))

Awaiting(pc) == {k \in DOMAIN cleanups : cleanups[k].pc = pc}

\* The stopAsync() of a flush settles; a Sound that is not loaded cannot be stopped.
CleanupStopSettles ==
  \E k \in Awaiting("stop"), ok \in BOOLEAN :
    /\ ok => Loaded(sounds[cleanups[k].on])
    /\ Plays(cleanupAfterStop(Pl, k, ok))

\* The unloadAsync() of a flush settles.
CleanupUnloadSettles ==
  \E k \in Awaiting("unload"), ok \in BOOLEAN :
    Plays(cleanupAfterUnload(Pl, k, ok))

\* A deleteAsync() of the loop of a flush settles.
CleanupDeleteSettles ==
  \E k \in Awaiting("delete"), ok \in BOOLEAN :
    Plays(cleanupAfterDelete(Pl, k, ok))

\* The scheduler with the chunks, the file system and the audio library.
PlayerNext ==
  \/ HandleAudioChunk
  \/ WriteSettles
  \/ ModeSettles
  \/ UnloadPrevSettles
  \/ CreateSettles
  \/ StatusPlaying
  \/ StatusFinish
  \/ StatusError
  \/ FinishUnloadSettles
  \/ CleanupPlayback
  \/ CleanupStopSettles
  \/ CleanupUnloadSettles
  \/ CleanupDeleteSettles

PlayerSpec == Init /\ [][PlayerNext]_vars

\* The scheduler in a run without flush.
DrainNext ==
  \/ HandleAudioChunk
  \/ WriteSettles
  \/ ModeSettles
  \/ CreateSettles
  \/ StatusPlaying
  \/ StatusFinish
  \/ StatusError
  \/ FinishUnloadSettles

\* Every call the scheduler awaits settles, and every Sound that plays reports
\* its end or an error.
DrainFairness ==
  /\ WF_vars(ModeSettles)
  /\ WF_vars(CreateSettles)
  /\ WF_vars(StatusFinish \/ StatusError)
  /\ WF_vars(FinishUnloadSettles)

DrainSpec == Init /\ [][DrainNext]_vars /\ DrainFairness

----------------------------------------------------------------------------
\* Reading out: the handler that ran last and what it did.

IsCall(o, name) == o # <<>> /\ o[1] = Entry("call", name, 0, 0)

IsEmit(entry, name) == entry.k = "emit" /\ entry.e = name

IsSetupFrame(entry) == entry.k = "frame" /\ entry.e = "setup"

Count(o, Test(_)) == Cardinality({i \in DOMAIN o : Test(o[i])})

IsError(entry) == IsEmit(entry, "error")

Outstanding == connectionAttempt # 0 /\ promises[connectionAttempt] = "pending"

----------------------------------------------------------------------------
C2_DisconnectLeavesIdle ==
  [][/\ IsCall(out', "disconnect") => (ws' = 0 /\ connectionAttempt' = 0)
     /\ quiesced => \A i \in DOMAIN out' :
                      ~IsSetupFrame(out'[i]) /\ ~IsEmit(out'[i], "open")]_vars

\* C3: at most one transport is connecting or open at any time.
C3_OneTransportInFlight ==
  Cardinality({t \in DOMAIN sockets : sockets[t].rs \in {"CONNECTING", "OPEN"}}) <= 1

\* C4: on every transport the first frame written is the setup frame, no later frame
\* is a setup frame, and a transport whose connect() resolved has had its setup frame
\* written.
C4_SetupFirstOnce ==
  \A t \in DOMAIN sockets :
    LET f == sockets[t].frames
    IN /\ f # <<>> => (f[1] = "setup" /\ \A i \in 2..Len(f) : f[i] # "setup")
       /\ promises[sockets[t].att] = "resolved" => f # <<>>

\* A resolved connection on which a frame was written after the setup frame.
C4_Witness ==
  \E t \in DOMAIN sockets :
    promises[sockets[t].att] = "resolved" /\ Len(sockets[t].frames) >= 2

\* C5: within the handler of the transport's open event the order is: transport
\* ready, setup frame with the configuration written to that transport, 'open'
\* emitted, promise resolved.
C5_OpenAfterSetup ==
  /\ \A i \in DOMAIN out :
       IsEmit(out[i], "open") =>
         \E r, f \in 1..(i - 1) :
           /\ r < f
           /\ out[r] = Entry("ready", "open", out[i].t, 0)
           /\ out[f] = Entry("frame", "setup", out[i].t, config)
  /\ \A j \in DOMAIN out :
       (out[j].k = "settle" /\ out[j].e = "resolved") =>
         \E i \in 1..(j - 1) : IsEmit(out[i], "open")

\* The open handler has just run: 'open' was emitted and the promise resolved.
C5_Witness ==
  /\ \E i \in DOMAIN out : IsEmit(out[i], "open")
  /\ \E j \in DOMAIN out : out[j].k = "settle" /\ out[j].e = "resolved"

\* C6: a disconnect() on an open connection schedules exactly one close event, a
\* disconnect() that directly follows a disconnect() schedules none, and a
\* disconnect() on an idle client changes no state.
C6_DisconnectIdempotent ==
  [][IsCall(out', "disconnect") =>
       /\ (ws # 0 /\ sockets[ws].rs = "OPEN") => Len(timers') = Len(timers) + 1
       /\ IsCall(out, "disconnect") => timers' = timers
       /\ (ws = 0 /\ connectionAttempt = 0) =>
            UNCHANGED <<ws, config, connectionAttempt, closingInitiated, sockets,
                        promises, timers>>]_vars

\* C7: every disconnect() made while the client holds a transport handle schedules
\* exactly one close event, whatever the transport's readyState, and that event
\* carries code 1000.
C7_DisconnectAlwaysCloses ==
  [][/\ (IsCall(out', "disconnect") /\ ws # 0) => timers' = Append(timers, ws)
     /\ (out' # <<>> /\ out'[1].k = "env" /\ out'[1].e = "timeout") =>
          out'[Len(out')] = Entry("emit", "close", 0, NormalClosure)]_vars

\* C8: no close or error event that originates from a transport is emitted once
\* disconnect() was called while that transport was live.
C8_NoEventAfterDisconnect ==
  \A i \in DOMAIN out :
    ((IsEmit(out[i], "close") \/ IsEmit(out[i], "error")) /\ out[i].t # 0)
      => out[i].t \notin disconnected

\* C9: the promise of an attempt whose transport closed before it was ready is
\* rejected.
C9_FailedAttemptRejects ==
  \A t \in DOMAIN sockets :
    (sockets[t].rs = "CLOSED" /\ ~sockets[t].ready)
      => promises[sockets[t].att] = "rejected"

\* The step in which an attempt fails: the constructor throws inside connect(), or a
\* transport still in its handshake closes.
AttemptFails ==
  \/ Len(promises') > Len(promises) /\ Len(sockets') = Len(sockets)
  \/ \E t \in DOMAIN sockets :
       /\ "onOpen" \in sockets[t].ls
       /\ ~sockets[t].ready
       /\ sockets[t].rs # "CLOSED"
       /\ sockets'[t].rs = "CLOSED"

\* C10: a failed attempt emits exactly one error event, clears the attempt handle and
\* leaves the transport handle null; no transport is created without a connect()
\* call that started an attempt.
C10_FailedAttemptCleansUp ==
  /\ [](Len(sockets) <= Len(promises))
  /\ [][AttemptFails =>
          /\ Count(out', IsError) = 1
          /\ connectionAttempt' = 0
          /\ ws' = 0]_vars

\* C11: the transport handle never points at a closed transport: every path that
\* detects a transport failure (handshake error, early close, server-initiated close,
\* error event while open) leaves the handle null.
C11_HandleNullAfterFailure ==
  ws # 0 => sockets[ws].rs # "CLOSED"

\* The handle holds a transport that is open.
IsOpen == ws # 0 /\ sockets[ws].rs = "OPEN"

\* C12: connect() called while the connection is open returns success at once: it
\* creates no transport and no promise, writes no frame, emits no event, and leaves
\* the stored configuration, the transport handle and every other field unchanged.
C12_ConnectWhileOpen ==
  [][(IsOpen /\ IsCall(out', "connect")) =>
       /\ out' = <<Entry("call", "connect", 0, 0), Entry("return", "resolved", 0, 0)>>
       /\ UNCHANGED <<ws, config, connectionAttempt, closingInitiated, sockets,
                      promises, timers>>]_vars

\* A connect() call has just returned success on a connection that is open.
C12_Witness ==
  /\ IsOpen
  /\ out = <<Entry("call", "connect", 0, 0), Entry("return", "resolved", 0, 0)>>

\* The connection ended: an attempt was made, and the client holds neither a
\* transport nor a pending attempt.
Ended == promises # <<>> /\ ws = 0 /\ ~Outstanding

\* C13: after the connection ended (disconnect(), server close or failed attempt) a
\* connect() starts a fresh attempt, with a new transport when the constructor
\* returns; when the transport of the current attempt signals ready the setup frame
\* is written and 'open' emitted; and a disconnect() on an open session schedules
\* exactly one close event.
C13_ReopenAfterEnd ==
  [][/\ (Ended /\ IsCall(out', "connect")) =>
          /\ Len(promises') = Len(promises) + 1
          /\ out'[Len(out')] = Entry("return", "attempt", Len(promises'), 0)
          /\ urlValid => Len(sockets') = Len(sockets) + 1
     /\ \A t \in DOMAIN sockets :
          (/\ Outstanding
           /\ sockets[t].att = connectionAttempt
           /\ out' # <<>>
           /\ out'[1] = Entry("ready", "open", t, 0)) =>
            /\ \E i \in DOMAIN out' : IsSetupFrame(out'[i])
            /\ \E i \in DOMAIN out' : IsEmit(out'[i], "open")
     /\ (IsOpen /\ IsCall(out', "disconnect")) => timers' = Append(timers, ws)]_vars

\* The parts of a list that carry a payload, in their order.
RECURSIVE Payload(_)
Payload(parts) ==
  IF parts = <<>>
  THEN <<>>
  ELSE IF Head(parts).text = "" /\ Head(parts).inlineData = "undefined"
       THEN Payload(Tail(parts))
       ELSE <<Head(parts)>> \o Payload(Tail(parts))

IsFrame(entry) == entry.k = "frame"

\* C14: a send() whose parts all lack a payload (or whose list is empty) writes no
\* frame; a send() on an open connection with some part that has a payload writes
\* exactly one frame, which holds the parts with a payload in their original order.
C14_SendFiltersParts ==
  [][IsCall(out', "send") =>
       LET expected == Payload(out'[2].x)
           written == SelectSeq(out', IsFrame)
       IN /\ expected = <<>> => (written = <<>> /\ sockets' = sockets)
          /\ (expected # <<>> /\ IsOpen) =>
               /\ Len(written) = 1
               /\ written[1].e = "clientContent"
               /\ written[1].t = ws
               /\ written[1].x.parts = expected
               /\ sockets' = [sockets EXCEPT ![ws].frames = Append(@, "clientContent")]]_vars

\* A send() of three parts has just written a frame with the two that have a payload.
C14_Witness ==
  /\ IsCall(out, "send")
  /\ Len(out[2].x) = 3
  /\ \E i \in DOMAIN out : IsFrame(out[i]) /\ Len(out[i].x.parts) = 2

\* The last handler was a call of send(), sendRealtimeInput() or sendToolResponse().
IsSendCall(o) ==
  /\ o # <<>>
  /\ o[1].k = "call"
  /\ o[1].e \in {"send", "sendRealtimeInput", "sendToolResponse"}

\* What a handler did, without the call and its arguments.
IsEffect(entry) == entry.k \notin {"call", "arg"}

\* C15: send(), sendRealtimeInput() and sendToolResponse() called while the
\* connection is not open write no frame and change no field of the client or of a
\* transport; their only effect is one warn.send log entry (no error event).
C15_SendWhileNotOpen ==
  [][(~IsOpen /\ IsSendCall(out')) =>
       LET effects == SelectSeq(out', IsEffect)
       IN /\ Len(effects) = 1
          /\ effects[1].k = "log"
          /\ effects[1].e = "warn.send"
          /\ UNCHANGED <<ws, config, connectionAttempt, closingInitiated, sockets,
                         promises, timers>>]_vars

\* sendToolResponse() has just been called after the connection was closed.
C15_Witness ==
  /\ IsCall(out, "sendToolResponse")
  /\ ~IsOpen
  /\ \E t \in DOMAIN sockets : sockets[t].ready /\ sockets[t].rs = "CLOSED"
  /\ out[Len(out)].e = "warn.send"

IsThrow(entry) == entry.k = "throw"

\* C16: _sendDirect() never throws; when the transport is absent or not open, or the
\* serialization or the write fails, it logs error.send, emits exactly one error
\* event and writes no frame, and it never changes the connection state (transport
\* handle, attempt, configuration, closing flag, promises, timers, readyState).
C16_SendDirectNeverThrows ==
  [][IsCall(out', "_sendDirect") =>
       LET failed == ~IsOpen \/ out'[2].e = "rejected"
           effects == SelectSeq(out', IsEffect)
       IN /\ Count(out', IsThrow) = 0
          /\ UNCHANGED <<ws, config, connectionAttempt, closingInitiated, promises,
                         timers>>
          /\ failed =>
               /\ Len(effects) = 2
               /\ effects[1].k = "log" /\ effects[1].e = "error.send"
               /\ IsError(effects[2])
               /\ sockets' = sockets
          /\ ~failed =>
               /\ Len(effects) = 1
               /\ IsFrame(effects[1])
               /\ sockets' = [sockets EXCEPT ![ws].frames = Append(@, "raw")]]_vars

\* _sendDirect() has just been handed, on an open connection, an object that cannot
\* be serialized or written.
C16_Witness ==
  /\ IsCall(out, "_sendDirect")
  /\ out[2].e = "rejected"
  /\ IsOpen
  /\ Count(out, IsError) = 1

\* The last handler parsed the text of an inbound frame: handleMessage for a string
\* or an ArrayBuffer, or its continuation after a Blob was read.
ParsesFrame(o) ==
  /\ Len(o) >= 2
  /\ o[1].k = "env"
  /\ o[1].e \in {"message", "blobread"}
  /\ o[2].e \in {"string", "ArrayBuffer", "text"}

\* The text of the frame the last handler was given.
FrameText(o) == o[2].x

IsJSON(text) == Len(text) = 3

\* The last handler parsed a frame that holds a ServerContent envelope.
ParsesServerContent(o) ==
  /\ ParsesFrame(o)
  /\ IsJSON(FrameText(o))
  /\ "serverContent" \in Keys(FrameText(o)[2])

IsEvent(entry) == entry.k = "emit"

\* The names of the events a handler emitted, in order.
EventNames(o) ==
  LET events == SelectSeq(o, IsEvent)
  IN [i \in 1..Len(events) |-> events[i].e]

\* The events of the markers of a ServerContent envelope.
MarkerEvents(m) ==
  (IF m.interrupted THEN <<"interrupted">> ELSE <<>>)
  \o (IF m.turnComplete THEN <<"turncomplete">> ELSE <<>>)

HasAudioType(part) == part.mimeType \in {"audio/pcm", "audio/wav"}

\* One 'audio' per audio inline-data part.
RECURSIVE AudioPerPart(_)
AudioPerPart(parts) ==
  IF parts = <<>>
  THEN <<>>
  ELSE (IF HasAudioType(Head(parts)) THEN <<"audio">> ELSE <<>>)
       \o AudioPerPart(Tail(parts))

\* Per audio inline-data part: nothing when its data is empty, 'audio' when its data
\* is Base64, 'error' when it is not.
RECURSIVE AudioOutcomes(_)
AudioOutcomes(parts) ==
  IF parts = <<>>
  THEN <<>>
  ELSE (IF ~HasAudioType(Head(parts)) \/ Head(parts).data = <<>>
        THEN <<>>
        ELSE IF Head(parts).data \in {<<"A", "A", "E", "C">>, <<"A", "w", "Q", "=">>}
             THEN <<"audio">>
             ELSE <<"error">>)
       \o AudioOutcomes(Tail(parts))

\* The payloads of the 'audio' events a handler emitted, in order.
AudioPayloads(o) ==
  LET events == SelectSeq(o, LAMBDA entry : IsEmit(entry, "audio"))
  IN [i \in 1..Len(events) |-> events[i].x]

C18_ArrivalOrder ==
  \A i, j \in DOMAIN dispatched : i < j => dispatched[i] < dispatched[j]

\* C19: an inbound frame whose text is not JSON (the empty text included) leads to
\* exactly one error event and to no other event.
C19_UnparseableFrame ==
  (ParsesFrame(out) /\ ~IsJSON(FrameText(out))) => EventNames(out) = <<"error">>

\* The last handler was handleMessage or its continuation after a Blob was read.
HandlesFrame(o) == o # <<>> /\ o[1].k = "env" /\ o[1].e \in {"message", "blobread"}

IsAudioName(name) == name = "audio"

First(seq) == IF seq = <<>> THEN <<>> ELSE <<Head(seq)>>

\* The first event the dispatcher emits for a message.
FirstEvent(m) ==
  IF "serverContent" \in Keys(m) THEN <<"content">>
  ELSE IF "toolCall" \in Keys(m) THEN <<"toolcall">>
  ELSE IF "toolCallCancellation" \in Keys(m) THEN <<"toolcallcancellation">>
  ELSE IF "setupComplete" \in Keys(m) THEN <<"setupcomplete">>
  ELSE <<>>

\* C20: decode errors are not fatal.  Handling a frame, malformed or not, changes
\* neither the transport handle nor any other field of the connection or of a
\* transport; every audio part with decodable data leads to its 'audio' event, also
\* after a part of the same envelope that failed to decode; and a frame parsed right
\* after a frame that led to an error is dispatched as usual.
C20_DecodeErrorsNotFatal ==
  [][/\ HandlesFrame(out') =>
          UNCHANGED <<ws, config, connectionAttempt, closingInitiated, sockets,
                      promises, timers>>
     /\ ParsesServerContent(out') =>
          SelectSeq(EventNames(out'), IsAudioName)
            = SelectSeq(AudioOutcomes(FrameText(out')[2].parts), IsAudioName)
     /\ (/\ HandlesFrame(out)
         /\ "error" \in {EventNames(out)[i] : i \in DOMAIN EventNames(out)}
         /\ ParsesFrame(out')
         /\ IsJSON(FrameText(out'))) =>
          First(EventNames(out')) = FirstEvent(FrameText(out')[2])]_vars

\* After a frame that led to an event, an envelope with an audio part that is not
\* Base64 has just been dispatched on a connection that is still open: 'error' for
\* that part, then 'audio' for the part after it.
C20_Witness ==
  /\ ParsesServerContent(out)
  /\ Len(dispatched) = 2
  /\ IsOpen
  /\ "handleMessage" \in sockets[ws].ls
  /\ \E i, j \in DOMAIN out : i < j /\ IsError(out[i]) /\ IsEmit(out[j], "audio")

\* C30: base64ToArrayBuffer(arrayBufferToBase64(x)) = x for every buffer x, the
\* empty buffer and buffers of every byte value 0..255 included.
C30_RoundTrip ==
  codec.stage = "bytes" => (codec.result.ok /\ codec.result.bytes = codec.buffer)

\* The buffer that holds every byte value has been encoded and decoded.
C30_Witness ==
  /\ codec.stage = "bytes"
  /\ Len(codec.buffer) = 256
  /\ \A b \in 0..255 : \E i \in DOMAIN codec.buffer : codec.buffer[i] = b
  /\ Len(codec.base64) = 344

\* The bytes of the data of the parts of a model turn whose mimeType is an audio type.
AudioBytes(parts) ==
  {base64ToArrayBuffer(parts[i].data).bytes :
     i \in {k \in DOMAIN parts : HasAudioType(parts[k])}}

\* C21: a ServerContent envelope yields exactly one 'content' event, which carries
\* the envelope's payload; when its model turn holds only text parts there is no
\* other event apart from those of the markers, so no 'audio' and no event per text
\* part; and every 'audio' event carries the data of an inline-data part whose
\* mimeType starts with 'audio/'.
C21_TextOnlyTurn ==
  ParsesServerContent(out) =>
    LET m == FrameText(out)[2]
    IN /\ Count(out, LAMBDA entry : IsEmit(entry, "content")) = 1
       /\ \A i \in DOMAIN out : IsEmit(out[i], "content") => out[i].x = m
       /\ (\A i \in DOMAIN m.parts : m.parts[i].mimeType = "undefined") =>
            EventNames(out) = <<"content">> \o MarkerEvents(m)
       /\ \A i \in DOMAIN AudioPayloads(out) : AudioPayloads(out)[i] \in AudioBytes(m.parts)
       /\ Len(EventNames(out)) <= 1 + Len(MarkerEvents(m)) + Cardinality(
            {k \in DOMAIN m.parts : HasAudioType(m.parts[k])})

\* An envelope whose model turn holds two text parts has just been dispatched.
C21_Witness ==
  /\ ParsesServerContent(out)
  /\ FrameText(out)[2].parts = TextTurn
  /\ EventNames(out) = <<"content">>

IsLog(entry, type) == entry.k = "log" /\ entry.e = type

\* The tags of the envelopes the dispatcher has a branch for.
KnownTags == {"serverContent", "toolCall", "toolCallCancellation", "setupComplete"}

\* The last handler parsed a frame that holds an envelope of no known tag.
ParsesUnhandled(o) ==
  /\ ParsesFrame(o)
  /\ IsJSON(FrameText(o))
  /\ Keys(FrameText(o)[2]) \cap KnownTags = {}

\* C22: a handler that parses an envelope with no recognized top-level tag writes
\* one 'warn.receive' log entry, which no other envelope gets, emits no event (so
\* neither 'error' nor a typed event), and leaves the handle, the configuration,
\* the flags, the transports, the promises and the timers as they were.
C22_UnhandledEnvelope ==
  [][/\ ParsesUnhandled(out') =>
          /\ Count(out', LAMBDA entry : IsLog(entry, "warn.receive")) = 1
          /\ Count(out', LAMBDA entry : IsLog(entry, "error.receive")) = 0
          /\ EventNames(out') = <<>>
          /\ UNCHANGED <<ws, config, connectionAttempt, closingInitiated, sockets,
                         promises, timers>>
     /\ (HandlesFrame(out') /\ ~ParsesUnhandled(out')) =>
          Count(out', LAMBDA entry : IsLog(entry, "warn.receive")) = 0]_vars

\* An envelope of no known tag has just been handled on the open connection.
C22_Witness ==
  /\ ParsesUnhandled(out)
  /\ FrameText(out)[2].tag = "usageMetadata"
  /\ IsOpen
  /\ Count(out, LAMBDA entry : IsLog(entry, "warn.receive")) = 1

\* C23: the chunks begin playback in the order they were received, whatever the
\* order in which their files were written: the loads are started in the order of
\* arrival.
C23_PlaybackOrder ==
  \A i, j \in DOMAIN history.started :
    i < j => history.started[i] < history.started[j]

\* A Sound that is being loaded into the output device or is loaded in it.
InDevice(state) == state = "loading" \/ Loaded(state)

\* C24: at every moment at most one item is loaded into the output device or
\* being loaded into it.
C24_OneItemInDevice ==
  Cardinality({i \in Chunks : InDevice(sounds[i])}) <= 1

\* C27: once a flush has been triggered, no chunk received before it begins
\* loading or playing; and when a flush completes the queue is empty, the flag is
\* clear, the ref is null and no Sound is loaded in the output device.
C27_FlushStopsPlayback ==
  [][/\ \A i \in Chunks :
          (history.triggered > 0 /\ i <= history.mark' /\ sounds'[i] # sounds[i]) =>
            sounds'[i] \notin {"loading", "playing"}
     /\ history.completed' > history.completed =>
          /\ playbackQueueRef' = <<>>
          /\ ~isPlayingAudioRef'
          /\ audioSoundRef' = 0
          /\ \A i \in Chunks : ~Loaded(sounds'[i])]_vars

\* C26: FileSystem.deleteAsync is called at most once for the file of each chunk.
C26_DeleteOnce ==
  \A i \in Chunks : history.deletes[i] <= 1

\* The lists of files the suspended flushes still have to delete; the first file
\* of a list is the one whose deleteAsync is pending.
Deleting(cs) == {cs[k].rest : k \in {j \in DOMAIN cs : cs[j].pc = "delete"}}

\* C28: a flush takes every tracked file and calls deleteAsync for the first; when
\* a deleteAsync of a flush settles, the file is deleted or the failure is logged,
\* the error state is left alone, and the flush calls deleteAsync for the next file
\* of its list, or completes when there is none: a failure stops nothing.
C28_FlushExhaustive ==
  [][/\ \A rest \in Deleting(cleanups) \ Deleting(cleanups') :
          /\ files'[Head(rest)] = "deleted" \/ Head(rest) \in history.warned'
          /\ error' = error
          /\ IF Tail(rest) = <<>>
             THEN history.completed' = history.completed + 1
             ELSE /\ Tail(rest) \in Deleting(cleanups')
                  /\ history.deletes'[Head(Tail(rest))] = history.deletes[Head(Tail(rest))] + 1
     /\ \A rest \in Deleting(cleanups') \ Deleting(cleanups) :
          \/ \E old \in Deleting(cleanups) : rest = Tail(old)
          \/ /\ rest = cleanupQueueRef
             /\ cleanupQueueRef' = <<>>
             /\ history.deletes'[Head(rest)] = history.deletes[Head(rest)] + 1]_vars

\* A flush that tracked the files of two chunks failed to delete the first, logged
\* it, and has called deleteAsync for the second.
C28_Witness ==
  /\ <<2>> \in Deleting(cleanups)
  /\ files[1] = "written"
  /\ 1 \in history.warned
  /\ history.deletes[1] = 1
  /\ history.deletes[2] = 1
  /\ error = "null"

\* The step is the failure of the load or of the playback of chunk i: the catch
\* of playNextInQueue or the error branch of its status callback runs.
Fails(i) == tasks[i].pc \in {"mode", "create", "active"} /\ tasks'[i].pc = "done"

\* What the scheduler does about the queue when the item i fails: the flag is
\* cleared and, when the queue holds an item, that item is dequeued and its
\* playNextInQueue runs, so that it is loaded without a new chunk arriving.
Advances(i) ==
  /\ history.deletes'[i] = history.deletes[i] + 1
  /\ IF playbackQueueRef = <<>>
     THEN playbackQueueRef' = <<>> /\ ~isPlayingAudioRef'
     ELSE /\ playbackQueueRef' = Tail(playbackQueueRef)
          /\ tasks'[Head(playbackQueueRef)].pc = "mode"
          /\ isPlayingAudioRef'

\* C29: when the load or the playback of an item fails, deleteAsync is called for
\* its file, the error is reported in the hook's error state, and the scheduler
\* goes on with the next item of the queue.
C29_ErrorAdvances ==
  [][\A i \in Chunks : Fails(i) => (Advances(i) /\ error' # "null")]_vars

\* Nothing is pending: no write, no load, no unload, no flush, and no Sound that
\* is still to report its end.
Quiescent ==
  /\ cleanups = <<>>
  /\ \A i \in Chunks :
       /\ tasks[i].pc \in {"none", "failed", "queued", "active", "done"}
       /\ sounds[i] \notin {"loading", "playing"}

\* C25: when a flush has completed and nothing is pending any more, deleteAsync has
\* been called for the file of every chunk that was written or was being written.
C25_NoFileLeft ==
  (Quiescent /\ history.completed > 0) =>
    \A i \in Chunks : files[i] # "none" => history.deletes[i] > 0

\* The step is the natural completion of item i: the handlers of the unloadAsync()
\* called after didJustFinish run.
Completes(i) == tasks[i].pc = "finishing" /\ tasks'[i].pc = "done"

\* The chunk waits in the playback queue.
Enqueued(i) == \E k \in DOMAIN playbackQueueRef : playbackQueueRef[k] = i

\* C31: without flush, when every awaited call settles and every playing Sound
\* reports its end or an error, every chunk in the queue is eventually dequeued
\* and handed to the audio library, whether or not another chunk arrives; and
\* at each natural completion deleteAsync is called for the item's file and the
\* next item of the queue, if any, is dequeued in the same step.
C31_QueueDrains ==
  /\ \A i \in Chunks : Enqueued(i) ~> (tasks[i].pc \in {"mode", "create", "active"})
  /\ [][\A i \in Chunks : Completes(i) => Advances(i)]_vars

\* The second chunk waited in the queue while the first played; the first has
\* completed and its file is deleted, and the second is playing.
C31_Witness ==
  /\ history.started = <<1, 2>>
  /\ tasks[1].pc = "done"
  /\ files[1] = "deleted"
  /\ sounds[2] = "playing"
  /\ history.triggered = 0

\* How far the handling of a chunk has got.
Rank(pc) ==
  CASE pc = "none" -> 0
    [] pc = "write" -> 1
    [] pc = "queued" -> 2
    [] pc = "mode" -> 3
    [] pc = "unloadPrev" -> 4
    [] pc = "create" -> 5
    [] pc = "active" -> 6
    [] pc = "finishing" -> 7
    [] OTHER -> 8

\* The scheduler is idle: the queue is empty and the flag is clear.
Idle == playbackQueueRef = <<>> /\ ~isPlayingAudioRef

\* C32: the handling of a chunk never goes back, so an item that was dequeued is
\* not put on the queue again and not attempted again, whatever fails; a chunk is
\* in the queue only between its write and its dequeue; and the scheduler is idle
\* again and again, so that with the chunks of a run it ends idle.
C32_BoundedDrain ==
  /\ [][\A i \in Chunks :
          /\ Rank(tasks'[i].pc) >= Rank(tasks[i].pc)
          /\ Enqueued(i)' => tasks'[i].pc = "queued"]_vars
  /\ []<>Idle

\* The loads of two chunks failed one after the other, the second having waited in
\* the queue, and the scheduler is idle.
C32_Witness ==
  /\ history.started = <<1, 2>>
  /\ sounds[1] = "failed"
  /\ sounds[2] = "failed"
  /\ tasks[1].pc = "done"
  /\ tasks[2].pc = "done"
  /\ Idle

\* C33: a setup frame written on a transport carries the configuration passed to
\* the connect() call that created the transport.
C33_SetupCarriesOwnConfig ==
  \A i \in DOMAIN out :
    IsSetupFrame(out[i]) => out[i].x = sockets[out[i].t].made

\* C34: over a run, the 'open' and 'close' events delivered to subscribers
\* alternate, starting with 'open'.
C34_OpenCloseAlternate == session.alternates

\* C35: no 'connecting' and no 'open' is emitted while a close event that
\* disconnect() synthesized is still to be delivered, so that the close of a
\* session reaches the subscribers before any event of a later session.
C35_CloseBeforeNextSession ==
  (\E i \in DOMAIN out : IsEmit(out[i], "connecting") \/ IsEmit(out[i], "open")) =>
    timers = <<>>

\* The events the dispatcher derives from an inbound frame.
InboundEvents ==
  {"content", "audio", "interrupted", "turncomplete", "toolcall",
   "toolcallcancellation", "setupcomplete"}

\* C36: once disconnect() was called, no event derived from an inbound frame of a
\* transport that was live at the call is emitted, the frames whose Blob was still
\* being read at the call included.
C36_NoInboundAfterDisconnect ==
  \A i \in DOMAIN out :
    (out[i].k = "emit" /\ out[i].e \in InboundEvents) => out[i].t \notin disconnected

\* The entry with which a branch of the dispatcher begins: the event of a typed
\* branch, or the log entry of the unhandled branch.
IsBranch(entry) ==
  \/ entry.k = "emit" /\ entry.e \in {"content", "toolcall", "toolcallcancellation",
                                      "setupcomplete"}
  \/ IsLog(entry, "warn.receive")

\* C37: a handler that parses an envelope runs exactly one of the serverContent,
\* toolCall, toolCallCancellation, setupComplete and unhandled branches, also for
\* an envelope with more than one recognized top-level key, for which it is the
\* first branch in that order whose key the envelope has.
C37_OneBranchPerEnvelope ==
  (ParsesFrame(out) /\ IsJSON(FrameText(out))) =>
    /\ Count(out, IsBranch) = 1
    /\ Keys(FrameText(out)[2]) \cap KnownTags # {} =>
         First(EventNames(out)) = FirstEvent(FrameText(out)[2])

\* An envelope with the keys setupComplete, toolCallCancellation and toolCall has
\* just been dispatched: as a tool call only.
C37_Witness ==
  /\ ParsesFrame(out)
  /\ IsJSON(FrameText(out))
  /\ Cardinality(Keys(FrameText(out)[2]) \cap KnownTags) = 3
  /\ EventNames(out) = <<"toolcall">>

\* The items playNextInQueue has taken from the queue and is loading.
BeingLoaded == {i \in Chunks : tasks[i].pc \in {"mode", "unloadPrev", "create"}}

Queued == {playbackQueueRef[i] : i \in DOMAIN playbackQueueRef}

\* C38: the file of every item in the playback queue, and of the item being
\* loaded, is completely written and not deleted, and no delete of it has been
\* issued; so a flush does not delete the file of a chunk enqueued after the flush
\* was triggered.
C38_QueuedFilesExist ==
  \A i \in Queued \cup BeingLoaded :
    files[i] = "written" /\ history.deletes[i] = 0

\* C39: whenever isPlayingAudioRef is false, no item is being loaded and no Sound
\* is loading, loaded or audible, so that the playNextInQueue a new chunk starts
\* finds the device free.
C39_FlagMatchesDevice ==
  ~isPlayingAudioRef =>
    /\ BeingLoaded = {}
    /\ \A i \in Chunks : sounds[i] \notin {"loading", "playing", "stopped", "ended"}

\* Persisting chunk i fails in this step.
WriteFails(i) == tasks[i].pc = "write" /\ tasks'[i].pc = "failed"

\* C40: the step in which persisting a chunk fails issues one delete of the
\* chunk's file, records the error, and leaves the playback queue, the cleanup
\* list and the active flag as they were; and a chunk whose write failed is never
\* enqueued or loaded afterwards.
C40_WriteFailure ==
  [][\A i \in Chunks :
       /\ WriteFails(i) =>
            /\ history.deletes'[i] = history.deletes[i] + 1
            /\ error' = "write"
            /\ UNCHANGED <<playbackQueueRef, cleanupQueueRef, isPlayingAudioRef>>
       /\ tasks[i].pc = "failed" =>
            /\ tasks'[i].pc = "failed"
            /\ i \notin {playbackQueueRef'[k] : k \in DOMAIN playbackQueueRef'}
            /\ i \notin {history.started'[k] : k \in DOMAIN history.started'}]_vars

\* The write of the second chunk has failed while the first one is playing.
C40_Witness ==
  /\ tasks[2].pc = "failed"
  /\ tasks[1].pc = "active"
  /\ error = "write"
  /\ history.deletes[2] = 1
  /\ isPlayingAudioRef
  /\ cleanupQueueRef = <<1>>

====
